---- MODULE Spec2Model ----
(***************************************************************************)
(* Skin Diagnosis System API (src/app): the authentication gate, the       *)
(* token service, doctor / patient registration, login and the case        *)
(* creation workflow, as a state machine over the four MongoDB collections *)
(* (doctors, API keys, patients, cases) and the GridFS image store.        *)
(*                                                                         *)
(* Every action is one complete request (gate + route handler) or one      *)
(* complete call of a model function.  The variables op, req, resp, steps, *)
(* forwarded, handler_ran and pre record the last operation, its input,    *)
(* its answer, the side-effecting calls it made, and the collections as    *)
(* they were before it.                                                    *)
(***************************************************************************)
EXTENDS Integers, Sequences, FiniteSets, TLC

\* ------------------------------------------------------------------ bounds
MaxDoctors  == 2
MaxPatients == 2
MaxCases    == 1
MaxImages   == 2
MaxTokens   == 1
MaxTime     == 1
MaxRequests == 2

\* ACCESS_TOKEN_EXPIRE_MINUTES, in clock ticks (environment-configured)
ACCESS_TOKEN_EXPIRE_MINUTES == 1

\* ------------------------------------------------------------- input sets
Emails       == {"a@x.org", "A@x.org", "b@x.org"}
Passwords    == {"", "pw1", "pw2"}
RegPasswords == {"pw1"}
Salts        == {"s1"}
PatientNumbers == {41, 42}
Filenames    == {"a.jpg", "A.JPG", "a.jpeg", "a.png", "x.gif", "x.bmp", "malware.exe"}
RouteFilenames == {"a.jpg", "malware.exe"}
ImageBytes   == {"empty", "data"}
NotesLists   == {<<"">>, <<"Follow-up required">>}
Diagnoses    == {"benign"}

\* str.lower() on the e-mail addresses of the model
LowerEmail(e) == IF e = "A@x.org" THEN "a@x.org" ELSE e

\* str.lower() on the file names of the model
LowerFilename(f) == IF f = "A.JPG" THEN "a.jpg" ELSE f

\* the suffix of a (lower-cased) file name from its last dot on
Suffix(f) ==
    CASE f = "a.jpg"       -> ".jpg"
      [] f = "a.jpeg"      -> ".jpeg"
      [] f = "a.png"       -> ".png"
      [] f = "x.gif"       -> ".gif"
      [] f = "x.bmp"       -> ".bmp"
      [] f = "malware.exe" -> ".exe"
      [] OTHER             -> ""

\* ------------------------------------------------------------------ tokens
\* A token string is one of: a JWT signed with SECRET_KEY ("signed"), a
\* well-formed JWT with another signature ("forged"), anything else
\* ("garbage").  id, email and exp are the claims it carries.
GarbageToken == [kind |-> "garbage", id |-> 0, email |-> "", exp |-> 0]
ForgedTokens ==
    {[kind |-> "forged", id |-> 1, email |-> "a@x.org", exp |-> MaxTime + 2]}

\* An Authorization header value "<scheme> <w1> <w2> ...", split at single
\* spaces; scheme = "" with no words is the absent (or empty) header.
NoHeader == [scheme |-> "", words |-> <<>>]
Bearer(tok) == [scheme |-> "Bearer", words |-> <<tok>>]

\* ------------------------------------------------------------- the store
\* Outcome of pymongo insert_one / gridfs put: acknowledged; sent with
\* write concern 0 (result.acknowledged is False; the server may or may not
\* have applied it); or an exception before anything is stored.
StoreOutcomes == {"ack", "unack_applied", "unack_lost", "error"}
Acknowledged(o) == o = "ack"
Applied(o) == o \in {"ack", "unack_applied"}

VARIABLES
    TESTING,      \* os.getenv("TESTING") == "true"
    PYJWT_EXP_INCLUSIVE,
                  \* the installed PyJWT rejects a token at the very instant of
                  \* its "exp" (2.5 and later); earlier 2.x accept it there
    now,          \* the clock
    doctors,      \* Doctors collection
    api_keys,     \* Users-API-Keys collection
    patients,     \* Patients collection
    cases,        \* Cases collection
    images,       \* GridFS image ids
    issued,       \* tokens create_access_token has returned
    op,           \* the last operation
    req,          \* its input
    resp,         \* its answer
    steps,        \* the side-effecting calls it made, in order
    forwarded,    \* the gate called call_next
    handler_ran,  \* the body of the route function ran
    pre,          \* cases and images before the last operation
    inflight      \* the requests served concurrently (threadpool workers)

vars == <<TESTING, PYJWT_EXP_INCLUSIVE, now, doctors, api_keys, patients, cases, images, issued,
          op, req, resp, steps, forwarded, handler_ran, pre, inflight>>

db == <<doctors, api_keys, patients, cases, images>>

NoCase == [case_id |-> 0, doctor_id |-> 0, patient_id |-> 0,
           diagnosis |-> "", notes |-> <<>>, image_id |-> 0]

NoReq == [path |-> "", header |-> NoHeader, email |-> "", password |-> "",
          patient_number |-> 0, filename |-> "", image |-> "",
          notes |-> <<>>, doctor_id |-> 0, data |-> <<>>, case_id |-> 0, patient_id |-> 0]

NoToken == [kind |-> "none", id |-> 0, email |-> "", exp |-> 0]

Response(status, detail) ==
    [status |-> status, detail |-> detail, case |-> NoCase, token |-> NoToken,
     api_key |-> 0, payload |-> <<>>, cases |-> {}, doctors |-> {}, patient_id |-> 0]

Snapshot == [cases |-> cases, images |-> images]

\* the concurrent requests and the position of a request not yet received
Requests == 1..MaxRequests
IdleRequest == [pc |-> "idle", email |-> "", patient_number |-> 0, doctor_id |-> 0,
                status |-> 0, steps |-> <<>>, created |-> {},
                api_key |-> 0, patient_id |-> 0, image_id |-> 0, reply |-> "", posts |-> 0,
                diagnosis |-> "", detail |-> ""]

\* uuid.uuid4() / ObjectId(): an identifier not used in the collection yet
FreshId(used) == IF used = {} THEN 1 ELSE 1 + CHOOSE m \in used : \A u \in used : u <= m

\* ------------------------------------------------------ credential hasher
\* bcrypt.hashpw(password, gensalt()): a digest that embeds its salt
hash_password(password, salt) == [salt |-> salt, of |-> password]

\* bcrypt.checkpw; False for an empty digest
EmptyDigest == [salt |-> "", of |-> ""]
verify_password(plain_password, hashed_password) ==
    /\ hashed_password # EmptyDigest
    /\ hashed_password.of = plain_password

\* ----------------------------------------------------------- token service
\* create_access_token that encodes the expiry only
create_access_token_exp_only(data, t) ==
    [k \in {"exp", "kind"} |->
        IF k = "kind" THEN "signed" ELSE t + ACCESS_TOKEN_EXPIRE_MINUTES]

\* create_access_token(data): to_encode = data.copy();
\* to_encode.update({"exp": now + ACCESS_TOKEN_EXPIRE_MINUTES});
\* jwt.encode(to_encode, SECRET_KEY).  The token is its payload plus the tag
\* "kind" that stands for its signature.
create_access_token(data, t) ==
    [k \in DOMAIN data \cup {"exp", "kind"} |->
        CASE k = "kind" -> "signed"
          [] k = "exp"  -> t + ACCESS_TOKEN_EXPIRE_MINUTES
          [] OTHER      -> data[k]]

\* the payload jwt.decode returns: every claim of the token, "exp" included
Payload(token) == [k \in DOMAIN token \ {"kind"} |-> token[k]]

\* an expiry validation that never fails
Expired_never(token, t) == FALSE

\* PyJWT _validate_exp at time t
Expired(token, t) ==
    IF PYJWT_EXP_INCLUSIVE THEN token.exp <= t ELSE token.exp < t

\* verify_token with the two failure details confused
verify_token_wrong_detail(token, t) ==
    IF token.kind # "signed"
    THEN [ok |-> FALSE, status |-> 401, detail |-> "Invalid token", payload |-> <<>>]
    ELSE IF Expired(token, t)
    THEN [ok |-> FALSE, status |-> 401, detail |-> "Invalid token", payload |-> <<>>]
    ELSE [ok |-> TRUE, status |-> 200, detail |-> "", payload |-> Payload(token)]

\* verify_token: jwt.decode checks structure and signature first, then the
\* expiry claim, and returns the payload
verify_token(token, t) ==
    IF token.kind # "signed"
    THEN [ok |-> FALSE, status |-> 401, detail |-> "Invalid token", payload |-> <<>>]
    ELSE IF Expired(token, t)
    THEN [ok |-> FALSE, status |-> 401, detail |-> "Token has expired", payload |-> <<>>]
    ELSE [ok |-> TRUE, status |-> 200, detail |-> "", payload |-> Payload(token)]

\* the claims maps handed to create_access_token: what login passes, what
\* the tests pass, and maps without "id", with their own "exp", and empty
ClaimsMaps ==
    {[id |-> 1, email |-> "a@x.org"], [user_id |-> 1, email |-> "a@x.org"],
     [id |-> 2], [id |-> 1, exp |-> 0], [k \in {} |-> 0]}

\* auth_header and auth_header.startswith("Bearer ")
StartsWithBearer(header) == header.scheme = "Bearer" /\ Len(header.words) >= 1

\* auth_header.split(" ")[1]
HeaderToken(header) == header.words[1]

\* ---------------------------------------------------------------- the gate
public_routes == {"/users/register-doctor", "/users/login", "/docs", "/openapi.json", "/redoc"}

\* dispatch that forwards any "Bearer ..." header without verifying the token
dispatch_skip_verify(testing, path, header, t) ==
    IF testing \/ path \in public_routes \/ header.scheme = "Bearer"
    THEN [forward |-> TRUE, status |-> 0, detail |-> ""]
    ELSE [forward |-> FALSE, status |-> 401,
          detail |-> "Missing or invalid Authorization header"]

\* AuthMiddleware.dispatch up to call_next: forward, or the 401 it answers
dispatch(testing, path, header, t) ==
    IF testing
    THEN [forward |-> TRUE, status |-> 0, detail |-> ""]
    ELSE IF path \in public_routes
    THEN [forward |-> TRUE, status |-> 0, detail |-> ""]
    ELSE IF ~StartsWithBearer(header)
    THEN [forward |-> FALSE, status |-> 401,
          detail |-> "Missing or invalid Authorization header"]
    ELSE LET v == verify_token(HeaderToken(header), t)
         IN  IF v.ok
             THEN [forward |-> TRUE, status |-> 0, detail |-> ""]
             ELSE [forward |-> FALSE, status |-> v.status, detail |-> v.detail]

\* a gate that lets the exception through: the request gets no answer
dispatch_exception_reraised == Response(0, "")

\* AuthMiddleware.dispatch, "except Exception": an exception that reaches
\* the gate from call_next
dispatch_exception == Response(500, "Internal server error during authentication.")

\* fastapi.security.HTTPBearer: a scheme "bearer" (any case) and credentials
HTTPBearer(header) ==
    /\ header.scheme \in {"Bearer", "bearer"}
    /\ Len(header.words) >= 1
HTTPBearerRejectStatuses == {401, 403}

\* get_doctor_by_id: find_one({"doctor_id": id}, {"_id": 0, "password": 0})
get_doctor_by_id(docs, id) == {[doctor_id |-> d.doctor_id, email |-> d.email] : d \in {x \in docs : x.doctor_id = id}}

\* get_all_doctors without the projection
get_all_doctors_unprojected(docs) == docs

\* get_all_doctors: find({}, {"_id": 0, "password": 0})
get_all_doctors(docs) == {[doctor_id |-> d.doctor_id, email |-> d.email] : d \in docs}

\* get_doctor_by_email that queries with the address as submitted
get_doctor_by_email_exact(docs, email) == {d \in docs : d.email = email}

\* get_doctor_by_email: find_one({"email": email.lower()}, {"_id": 0})
get_doctor_by_email(docs, email) == {d \in docs : d.email = LowerEmail(email)}

\* get_current_doctor: the caller's doctor_id, or the 401 it raises
get_current_doctor(header, t, docs) ==
    IF ~StartsWithBearer(header)
    THEN [ok |-> FALSE, status |-> 401,
          detail |-> "Missing or invalid Authorization header", doctor_id |-> 0]
    ELSE LET v == verify_token(HeaderToken(header), t)
         IN  IF ~v.ok
             THEN [ok |-> FALSE, status |-> v.status, detail |-> v.detail, doctor_id |-> 0]
             ELSE IF "id" \notin DOMAIN v.payload
             THEN [ok |-> FALSE, status |-> 401, detail |-> "Doctor not found", doctor_id |-> 0]
             ELSE IF get_doctor_by_id(docs, v.payload.id) = {}
             THEN [ok |-> FALSE, status |-> 401, detail |-> "Doctor not found", doctor_id |-> 0]
             ELSE [ok |-> TRUE, status |-> 200, detail |-> "", doctor_id |-> v.payload.id]

\* ------------------------------------------------------ what a client sends
ClientTokens == issued \cup ForgedTokens \cup {GarbageToken}

Headers ==
    {NoHeader, [scheme |-> "Basic", words |-> <<GarbageToken>>]}
    \cup {[scheme |-> "bearer", words |-> <<tok>>] : tok \in issued}
    \cup {Bearer(tok) : tok \in ClientTokens}

\* the headers sent to the two public API routes and the documentation
PublicHeaders == {NoHeader}

\* the headers sent to the routes that identify the caller
ApiHeaders == {NoHeader} \cup {Bearer(tok) : tok \in issued}

\* the part of every action that records the operation
Record(o, r, a, s, fwd, ran) ==
    /\ op' = o
    /\ req' = r
    /\ resp' = a
    /\ steps' = s
    /\ forwarded' = fwd
    /\ handler_ran' = ran
    /\ pre' = Snapshot

HttpReq(path, header) == [NoReq EXCEPT !.path = path, !.header = header]

Init ==
    /\ TESTING \in BOOLEAN
    /\ PYJWT_EXP_INCLUSIVE \in BOOLEAN
    /\ now = 0
    /\ doctors = {}
    /\ api_keys = {}
    /\ patients = {}
    /\ cases = {}
    /\ images = {}
    /\ issued = {}
    /\ op = "init"
    /\ req = NoReq
    /\ resp = Response(0, "")
    /\ steps = <<>>
    /\ forwarded = FALSE
    /\ handler_ran = FALSE
    /\ pre = [cases |-> {}, images |-> {}]
    /\ inflight = [r \in Requests |-> IdleRequest]

\* time passes
Tick ==
    /\ now < MaxTime
    /\ now' = now + 1
    /\ Record("tick", NoReq, Response(0, ""), <<>>, FALSE, FALSE)
    /\ UNCHANGED <<TESTING, PYJWT_EXP_INCLUSIVE, inflight, db, issued>>

\* GET / : health_check behind the gate
HealthCheck ==
    \E header \in Headers :
        LET g == dispatch(TESTING, "/", header, now)
        IN  /\ IF g.forward
               THEN Record("health_check", HttpReq("/", header),
                           Response(200, "Skin Diagnosis API is running"),
                           <<>>, TRUE, TRUE)
               ELSE Record("health_check", HttpReq("/", header),
                           Response(g.status, g.detail), <<>>, FALSE, FALSE)
            /\ UNCHANGED <<TESTING, PYJWT_EXP_INCLUSIVE, inflight, now, db, issued>>

\* GET /protected-route : Security(bearer_scheme), then the token is echoed
ProtectedRoute ==
    \E header \in Headers :
        LET g == dispatch(TESTING, "/protected-route", header, now)
            r == HttpReq("/protected-route", header)
        IN  /\ IF ~g.forward
               THEN Record("protected_route", r, Response(g.status, g.detail),
                           <<>>, FALSE, FALSE)
               ELSE IF ~HTTPBearer(header)
               THEN \E st \in HTTPBearerRejectStatuses :
                        Record("protected_route", r, Response(st, "Not authenticated"),
                               <<>>, TRUE, FALSE)
               ELSE Record("protected_route", r, Response(200, "token"),
                           <<>>, TRUE, TRUE)
            /\ UNCHANGED <<TESTING, PYJWT_EXP_INCLUSIVE, inflight, now, db, issued>>

\* GET /docs, /openapi.json, /redoc : the framework's documentation routes
DocsPaths == {"/docs", "/openapi.json", "/redoc"}
Docs ==
    \E path \in DocsPaths, header \in PublicHeaders :
        LET g == dispatch(TESTING, path, header, now)
        IN  /\ IF g.forward
               THEN Record("docs", HttpReq(path, header), Response(200, "docs"),
                           <<>>, TRUE, TRUE)
               ELSE Record("docs", HttpReq(path, header),
                           Response(g.status, g.detail), <<>>, FALSE, FALSE)
            /\ UNCHANGED <<TESTING, PYJWT_EXP_INCLUSIVE, inflight, now, db, issued>>

\* a call of create_access_token(data)
IssueToken ==
    \E data \in ClaimsMaps :
        LET token == create_access_token(data, now)
        IN  /\ token \in issued \/ Cardinality(issued) <= MaxTokens
            /\ issued' = issued \cup {token}
            /\ Record("create_access_token", [NoReq EXCEPT !.data = data],
                      [Response(200, "") EXCEPT !.token = token], <<>>, FALSE, FALSE)
            /\ UNCHANGED <<TESTING, PYJWT_EXP_INCLUSIVE, inflight, now, db>>

\* a call of verify_token(token); req.data stays the claims map of the last
\* call of create_access_token
VerifyToken ==
    \E token \in ClientTokens :
        LET v == verify_token(token, now)
        IN  /\ Record("verify_token", [NoReq EXCEPT !.header = Bearer(token), !.data = req.data],
                      [Response(v.status, v.detail) EXCEPT !.payload = v.payload],
                      <<>>, FALSE, FALSE)
            /\ UNCHANGED <<TESTING, PYJWT_EXP_INCLUSIVE, inflight, now, db, issued>>

\* time passes between two calls of the token service, to one tick beyond
\* the expiry of the last token that can be issued before MaxTime
Elapse ==
    /\ now <= MaxTime
    /\ now' = now + 1
    /\ Record("elapse", [NoReq EXCEPT !.data = req.data], Response(0, ""),
              <<>>, FALSE, FALSE)
    /\ UNCHANGED <<TESTING, PYJWT_EXP_INCLUSIVE, inflight, db, issued>>

\* ------------------------------------------------------- access key store
\* get_api_key that hands out a key to a doctor that has none
get_api_key_always_ok(keys, doctor_id) ==
    [ok |-> TRUE, status |-> 200, detail |-> "", api_key |-> 1]

\* get_api_key: the 404 raised inside the try block is caught by
\* "except Exception" and re-raised as 500
get_api_key(keys, doctor_id) ==
    IF doctor_id = 0
    THEN [ok |-> FALSE, status |-> 400, detail |-> "Doctor ID is missing.", api_key |-> 0]
    ELSE IF {k \in keys : k.doctor_id = doctor_id} = {}
    THEN [ok |-> FALSE, status |-> 500, detail |-> "Error retrieving API key.", api_key |-> 0]
    ELSE [ok |-> TRUE, status |-> 200, detail |-> "",
          api_key |-> (CHOOSE k \in keys : k.doctor_id = doctor_id).api_key]

\* the access-key record allocate_api_key inserts at time t: valid 30 days,
\* usage budget 1000
ApiKeyData(doctor_id, api_key, t) ==
    [doctor_id |-> doctor_id, api_key |-> api_key, created_at |-> t,
     expired_date |-> t + 30, usage |-> 1000]

\* allocate_api_key without the look-up of an existing key
allocate_api_key_always_new(keys, doctor_id, t, outcome) ==
    LET api_key == FreshId({k.api_key : k \in keys})
        stored == IF Applied(outcome)
                  THEN keys \cup {ApiKeyData(doctor_id, api_key, t)}
                  ELSE keys
    IN  [ok |-> Acknowledged(outcome), keys |-> stored, api_key |-> api_key]

\* allocate_api_key: the keys collection afterwards and the key returned
\* (ok = FALSE: it raised 500)
allocate_api_key(keys, doctor_id, t, outcome) ==
    IF {k \in keys : k.doctor_id = doctor_id} # {}
    THEN [ok |-> TRUE, keys |-> keys,
          api_key |-> (CHOOSE k \in keys : k.doctor_id = doctor_id).api_key]
    ELSE LET api_key == FreshId({k.api_key : k \in keys})
             stored == IF Applied(outcome)
                       THEN keys \cup {ApiKeyData(doctor_id, api_key, t)}
                       ELSE keys
         IN  [ok |-> Acknowledged(outcome), keys |-> stored, api_key |-> api_key]

\* a call of allocate_api_key(doctor_id)
AllocateApiKey ==
    \E doctor_id \in 1..MaxDoctors, outcome \in StoreOutcomes :
        LET a == allocate_api_key(api_keys, doctor_id, now, outcome)
        IN  /\ Cardinality(api_keys) <= MaxDoctors
            /\ api_keys' = a.keys
            /\ Record("allocate_api_key", [NoReq EXCEPT !.doctor_id = doctor_id],
                      IF a.ok THEN [Response(200, "") EXCEPT !.api_key = a.api_key]
                      ELSE Response(500, "API key allocation error."),
                      <<>>, FALSE, FALSE)
            /\ UNCHANGED <<TESTING, PYJWT_EXP_INCLUSIVE, inflight, now, doctors, patients, cases, images, issued>>

\* ------------------------------------------------------------ registration
\* the body of create_doctor's 201: doctor_data after pop("password") and
\* pop("_id"), with the allocated key
DoctorResponse(doctor_data, api_key) ==
    [doctor_id |-> doctor_data.doctor_id, email |-> doctor_data.email,
     api_key |-> api_key]

\* create_doctor: insert the doctor, then allocate its key; every failure
\* is answered with a 500 JSONResponse
create_doctor(email, password, salt) ==
    LET doctor_data == [doctor_id |-> FreshId({d.doctor_id : d \in doctors}),
                        email |-> LowerEmail(email),
                        password |-> hash_password(password, salt)]
    IN  \E o_doctor \in StoreOutcomes :
            /\ doctors' = IF Applied(o_doctor) THEN doctors \cup {doctor_data} ELSE doctors
            /\ IF ~Acknowledged(o_doctor)
               THEN /\ api_keys' = api_keys
                    /\ resp' = Response(500, "An error occurred while creating the doctor")
                    /\ steps' = <<"doctors.insert_one">>
               ELSE \E o_key \in StoreOutcomes :
                        LET a == allocate_api_key(api_keys, doctor_data.doctor_id, now, o_key)
                        IN  /\ api_keys' = a.keys
                            /\ resp' = IF a.ok
                                       THEN [Response(201, "created") EXCEPT
                                               !.api_key = a.api_key,
                                               !.doctors = {DoctorResponse(doctor_data, a.api_key)}]
                                       ELSE Response(500, "An error occurred while creating the doctor")
                            /\ steps' = <<"doctors.insert_one", "allocate_api_key">>

\* POST /users/register-doctor (public): the e-mail pre-check, then create_doctor
register_doctor(header, email, password, salt) ==
        LET g == dispatch(TESTING, "/users/register-doctor", header, now)
        IN  /\ g.forward
            /\ op' = "register_doctor"
            /\ req' = [HttpReq("/users/register-doctor", header)
                         EXCEPT !.email = email, !.password = password]
            /\ forwarded' = TRUE
            /\ handler_ran' = TRUE
            /\ pre' = Snapshot
            /\ IF get_doctor_by_email(doctors, email) # {}
               THEN /\ resp' = Response(400, "Email is already registered.")
                    /\ steps' = <<>>
                    /\ UNCHANGED <<doctors, api_keys>>
               ELSE /\ Cardinality(doctors) < MaxDoctors
                    /\ create_doctor(email, password, salt)
            /\ UNCHANGED <<TESTING, PYJWT_EXP_INCLUSIVE, inflight, now, patients, cases, images, issued>>

RegisterDoctor ==
    \E header \in PublicHeaders, email \in Emails, password \in RegPasswords, salt \in Salts :
        register_doctor(header, email, password, salt)

\* register-doctor with any password the schema accepts, the empty one included
RegisterDoctorAnyPassword ==
    \E header \in PublicHeaders, email \in Emails, password \in Passwords, salt \in Salts :
        register_doctor(header, email, password, salt)

\* ---- register-doctor served concurrently: register_doctor is a plain
\* "def" route, run in a threadpool worker; between its two store accesses
\* (the find_one of the pre-check, the insert_one of create_doctor) other
\* workers run
\* an insert that the store refuses when the e-mail is already stored
insert_accepts_unique_index(docs, email) == \A d \in docs : d.email # LowerEmail(email)

\* doctors.insert_one(doctor_data): the collection has no unique index and
\* the code takes no lock, so the insert is accepted whatever is stored
insert_accepts(docs, email) == TRUE

\* request r: the gate and the e-mail pre-check of register_doctor
RegisterDoctorPrecheck(r) ==
    \E email \in Emails :
        LET g == dispatch(TESTING, "/users/register-doctor", NoHeader, now)
            existing_doctor == get_doctor_by_email(doctors, email)
            a == IF existing_doctor # {}
                 THEN Response(400, "Email is already registered.")
                 ELSE Response(0, "")
        IN  /\ inflight[r].pc = "idle"
            /\ g.forward
            /\ inflight' = [inflight EXCEPT ![r] =
                   [IdleRequest EXCEPT !.pc = IF existing_doctor # {} THEN "done" ELSE "checked",
                                       !.email = email, !.status = a.status]]
            /\ Record("register_doctor.precheck",
                      [HttpReq("/users/register-doctor", NoHeader) EXCEPT !.email = email],
                      a, <<>>, TRUE, TRUE)
            /\ UNCHANGED <<TESTING, PYJWT_EXP_INCLUSIVE, now, db, issued>>

\* request r, past the pre-check: create_doctor
RegisterDoctorCreate(r) ==
    /\ inflight[r].pc = "checked"
    /\ Cardinality(doctors) < MaxDoctors
    /\ IF insert_accepts(doctors, inflight[r].email)
       THEN create_doctor(inflight[r].email, "pw1", "s1")
       ELSE /\ resp' = Response(500, "An error occurred while creating the doctor")
            /\ steps' = <<>>
            /\ UNCHANGED <<doctors, api_keys>>
    /\ inflight' = [inflight EXCEPT ![r].pc = "done", ![r].status = resp'.status,
                                     ![r].steps = steps', ![r].created = resp'.doctors]
    /\ op' = "register_doctor.create"
    /\ req' = [HttpReq("/users/register-doctor", NoHeader) EXCEPT !.email = inflight[r].email]
    /\ forwarded' = TRUE
    /\ handler_ran' = TRUE
    /\ pre' = Snapshot
    /\ UNCHANGED <<TESTING, PYJWT_EXP_INCLUSIVE, now, patients, cases, images, issued>>

\* ---- create_doctor store access by store access: insert_one of the
\* doctor, then allocate_api_key's find_one and insert_one
\* a doctor id generator that hands out the same id every time
doctor_id_uuid4_fixed(used) == 1

\* "doctor_id": str(uuid.uuid4()): an id no record and no request holds
doctor_id_uuid4(used) == FreshId(used)

\* the doctor ids stored or held by a request being served
DoctorIdsInUse ==
    {d.doctor_id : d \in doctors} \cup {k.doctor_id : k \in api_keys}
        \cup {inflight[q].doctor_id : q \in Requests}

\* request r, past the e-mail pre-check: doctor_data and doctors.insert_one
RegisterDoctorInsert(r) ==
    \E o_doctor \in StoreOutcomes :
        LET doctor_data == [doctor_id |-> doctor_id_uuid4(DoctorIdsInUse),
                            email |-> LowerEmail(inflight[r].email),
                            password |-> hash_password("pw1", "s1")]
        IN  /\ inflight[r].pc = "checked"
            /\ Cardinality(doctors) < MaxDoctors
            /\ doctors' = IF Applied(o_doctor) THEN doctors \cup {doctor_data} ELSE doctors
            /\ resp' = IF Acknowledged(o_doctor) THEN Response(0, "")
                       ELSE Response(500, "An error occurred while creating the doctor")
            /\ steps' = Append(inflight[r].steps, "doctors.insert_one")
            /\ inflight' = [inflight EXCEPT
                   ![r].pc = IF Acknowledged(o_doctor) THEN "inserted" ELSE "done",
                   ![r].doctor_id = doctor_data.doctor_id,
                   ![r].status = resp'.status,
                   ![r].steps = steps']
            /\ op' = "register_doctor.insert"
            /\ req' = [HttpReq("/users/register-doctor", NoHeader)
                         EXCEPT !.email = inflight[r].email,
                                !.doctor_id = doctor_data.doctor_id]
            /\ forwarded' = TRUE
            /\ handler_ran' = TRUE
            /\ pre' = Snapshot
            /\ UNCHANGED <<TESTING, PYJWT_EXP_INCLUSIVE, now, api_keys, patients, cases,
                           images, issued>>

\* request r, doctor inserted: allocate_api_key's look-up of an existing key
RegisterDoctorKeyLookup(r) ==
    LET doctor_id == inflight[r].doctor_id
        existing_api_key == {k \in api_keys : k.doctor_id = doctor_id}
        doctor_data == [doctor_id |-> doctor_id, email |-> LowerEmail(inflight[r].email)]
    IN  /\ inflight[r].pc = "inserted"
        /\ resp' = IF existing_api_key = {} THEN Response(0, "")
                   ELSE LET api_key == (CHOOSE k \in existing_api_key : TRUE).api_key
                        IN  [Response(201, "created") EXCEPT
                               !.api_key = api_key,
                               !.doctors = {DoctorResponse(doctor_data, api_key)}]
        /\ steps' = Append(inflight[r].steps, "api_keys.find_one")
        /\ inflight' = [inflight EXCEPT
               ![r].pc = IF existing_api_key = {} THEN "allocating" ELSE "done",
               ![r].status = resp'.status,
               ![r].steps = steps',
               ![r].created = resp'.doctors]
        /\ op' = "register_doctor.key_lookup"
        /\ req' = [HttpReq("/users/register-doctor", NoHeader)
                     EXCEPT !.email = inflight[r].email, !.doctor_id = doctor_id]
        /\ forwarded' = TRUE
        /\ handler_ran' = TRUE
        /\ pre' = Snapshot
        /\ UNCHANGED <<TESTING, PYJWT_EXP_INCLUSIVE, now, db, issued>>

\* request r, no key found: generate_api_key, api_keys.insert_one, the answer
RegisterDoctorKeyInsert(r) ==
    \E o_key \in StoreOutcomes :
        LET doctor_id == inflight[r].doctor_id
            api_key == FreshId({k.api_key : k \in api_keys})
            doctor_data == [doctor_id |-> doctor_id, email |-> LowerEmail(inflight[r].email)]
        IN  /\ inflight[r].pc = "allocating"
            /\ api_keys' = IF Applied(o_key)
                           THEN api_keys \cup {ApiKeyData(doctor_id, api_key, now)}
                           ELSE api_keys
            /\ resp' = IF Acknowledged(o_key)
                       THEN [Response(201, "created") EXCEPT
                               !.api_key = api_key,
                               !.doctors = {DoctorResponse(doctor_data, api_key)}]
                       ELSE Response(500, "An error occurred while creating the doctor")
            /\ steps' = Append(inflight[r].steps, "api_keys.insert_one")
            /\ inflight' = [inflight EXCEPT ![r].pc = "done",
                                             ![r].status = resp'.status,
                                             ![r].steps = steps',
                                             ![r].created = resp'.doctors]
            /\ op' = "register_doctor.key_insert"
            /\ req' = [HttpReq("/users/register-doctor", NoHeader)
                         EXCEPT !.email = inflight[r].email, !.doctor_id = doctor_id]
            /\ forwarded' = TRUE
            /\ handler_ran' = TRUE
            /\ pre' = Snapshot
            /\ UNCHANGED <<TESTING, PYJWT_EXP_INCLUSIVE, now, doctors, patients, cases,
                           images, issued>>

\* ------------------------------------------------------------------- login
\* authenticate_doctor: the token it returns, or the 401 it raises
authenticate_doctor(docs, email, password, t) ==
    LET found == get_doctor_by_email(docs, email)
    IN  IF email = "" \/ password = ""
        THEN [ok |-> FALSE, status |-> 400, detail |-> "Email and password are required.",
              token |-> NoToken]
        ELSE IF found = {}
        THEN [ok |-> FALSE, status |-> 401, detail |-> "Invalid email or password.",
              token |-> NoToken]
        ELSE LET doctor_data == CHOOSE d \in found : TRUE
             IN  IF ~verify_password(password, doctor_data.password)
                 THEN [ok |-> FALSE, status |-> 401, detail |-> "Invalid password.",
                       token |-> NoToken]
                 ELSE [ok |-> TRUE, status |-> 200, detail |-> "",
                       token |-> create_access_token([id |-> doctor_data.doctor_id,
                                                      email |-> doctor_data.email], t)]

\* POST /users/login (public)
Login ==
    \E header \in PublicHeaders, email \in Emails, password \in Passwords :
        LET g == dispatch(TESTING, "/users/login", header, now)
            a == authenticate_doctor(doctors, email, password, now)
        IN  /\ g.forward
            /\ a.ok => (a.token \in issued \/ Cardinality(issued) < MaxTokens)
            /\ issued' = IF a.ok THEN issued \cup {a.token} ELSE issued
            /\ Record("login",
                      [HttpReq("/users/login", header)
                         EXCEPT !.email = email, !.password = password],
                      [Response(a.status, a.detail) EXCEPT !.token = a.token],
                      <<>>, TRUE, TRUE)
            /\ UNCHANGED <<TESTING, PYJWT_EXP_INCLUSIVE, inflight, now, db>>

\* GET /users/doctors : gate, HTTPBearer, get_current_doctor, get_all_doctors
GetDoctors ==
    \E header \in ApiHeaders :
        LET g == dispatch(TESTING, "/users/doctors", header, now)
            c == get_current_doctor(header, now, doctors)
            ran == g.forward /\ HTTPBearer(header) /\ c.ok
        IN  /\ IF ~g.forward THEN resp' = Response(g.status, g.detail)
               ELSE IF ~HTTPBearer(header)
               THEN \E st \in HTTPBearerRejectStatuses :
                        resp' = Response(st, "Not authenticated")
               ELSE IF ~c.ok THEN resp' = Response(c.status, c.detail)
               ELSE resp' = [Response(200, "") EXCEPT !.doctors = get_all_doctors(doctors)]
            /\ op' = "get_doctors"
            /\ req' = [HttpReq("/users/doctors", header)
                         EXCEPT !.doctor_id = IF ran THEN c.doctor_id ELSE 0]
            /\ steps' = <<>>
            /\ forwarded' = g.forward
            /\ handler_ran' = ran
            /\ pre' = Snapshot
            /\ UNCHANGED <<TESTING, PYJWT_EXP_INCLUSIVE, inflight, now, db, issued>>

\* ----------------------------------------------------------------- patients
\* create_patient without the duplicate pre-check
create_patient_no_precheck(patient_number) ==
    \E outcome \in StoreOutcomes :
         /\ Cardinality(patients) < MaxPatients
         /\ patients' = IF Applied(outcome)
                        THEN patients \cup
                             {[patient_id |-> FreshId({p.patient_id : p \in patients}),
                               patient_number |-> patient_number]}
                        ELSE patients
         /\ steps' = <<"patients.insert_one">>
         /\ resp' = IF Acknowledged(outcome)
                    THEN Response(201, "created")
                    ELSE Response(500, "Database error occurred while creating the patient.")

\* create_patient: the duplicate pre-check, then the insert
create_patient(patient_number) ==
    IF {p \in patients : p.patient_number = patient_number} # {}
    THEN /\ resp' = Response(400, "Patient number already exists.")
         /\ steps' = <<>>
         /\ patients' = patients
    ELSE \E outcome \in StoreOutcomes :
         /\ Cardinality(patients) < MaxPatients
         /\ patients' = IF Applied(outcome)
                        THEN patients \cup
                             {[patient_id |-> FreshId({p.patient_id : p \in patients}),
                               patient_number |-> patient_number]}
                        ELSE patients
         /\ steps' = <<"patients.insert_one">>
         /\ resp' = IF Acknowledged(outcome)
                    THEN Response(201, "created")
                    ELSE Response(500, "Database error occurred while creating the patient.")

\* POST /users/register-patient : gate, HTTPBearer, get_current_doctor, create_patient
RegisterPatient ==
    \E header \in ApiHeaders, patient_number \in PatientNumbers :
        LET g == dispatch(TESTING, "/users/register-patient", header, now)
            c == get_current_doctor(header, now, doctors)
        IN  /\ op' = "register_patient"
            /\ req' = [HttpReq("/users/register-patient", header)
                         EXCEPT !.patient_number = patient_number]
            /\ pre' = Snapshot
            /\ forwarded' = g.forward
            /\ handler_ran' = (g.forward /\ HTTPBearer(header) /\ c.ok)
            /\ IF ~g.forward
               THEN /\ resp' = Response(g.status, g.detail)
                    /\ steps' = <<>>
                    /\ patients' = patients
               ELSE IF ~HTTPBearer(header)
               THEN /\ \E st \in HTTPBearerRejectStatuses :
                           resp' = Response(st, "Not authenticated")
                    /\ steps' = <<>>
                    /\ patients' = patients
               ELSE IF ~c.ok
               THEN /\ resp' = Response(c.status, c.detail)
                    /\ steps' = <<>>
                    /\ patients' = patients
               ELSE create_patient(patient_number)
            /\ UNCHANGED <<TESTING, PYJWT_EXP_INCLUSIVE, inflight, now, doctors, api_keys, cases, images, issued>>

\* ---- register-patient served concurrently: register_patient is a plain
\* "def" route; between the find_one of the duplicate pre-check and
\* patients.insert_one other workers run
\* an insert that the store refuses when the patient number is already stored
patients_insert_accepts_unique_index(pats, patient_number) ==
    \A p \in pats : p.patient_number # patient_number

\* patients.insert_one(patient_data): no unique index on patient_number and
\* no lock, so the insert is accepted whatever is stored
patients_insert_accepts(pats, patient_number) == TRUE

\* request r: the gate, the dependencies and the duplicate pre-check
RegisterPatientPrecheck(r) ==
    \E header \in ApiHeaders, patient_number \in PatientNumbers :
        LET g == dispatch(TESTING, "/users/register-patient", header, now)
            c == get_current_doctor(header, now, doctors)
            ran == g.forward /\ HTTPBearer(header) /\ c.ok
            found == {p \in patients : p.patient_number = patient_number}
        IN  /\ inflight[r].pc = "idle"
            /\ IF ~g.forward THEN resp' = Response(g.status, g.detail)
               ELSE IF ~HTTPBearer(header)
               THEN \E st \in HTTPBearerRejectStatuses :
                        resp' = Response(st, "Not authenticated")
               ELSE IF ~c.ok THEN resp' = Response(c.status, c.detail)
               ELSE IF found # {}
               THEN resp' = Response(400, "Patient number already exists.")
               ELSE resp' = Response(0, "")
            /\ inflight' = [inflight EXCEPT ![r] =
                   [IdleRequest EXCEPT !.pc = IF ran /\ found = {} THEN "checked"
                                             ELSE IF ran THEN "duplicate" ELSE "refused",
                                       !.patient_number = patient_number,
                                       !.status = resp'.status]]
            /\ op' = "register_patient.precheck"
            /\ req' = [HttpReq("/users/register-patient", header)
                         EXCEPT !.patient_number = patient_number]
            /\ steps' = <<>>
            /\ forwarded' = g.forward
            /\ handler_ran' = ran
            /\ pre' = Snapshot
            /\ UNCHANGED <<TESTING, PYJWT_EXP_INCLUSIVE, now, db, issued>>

\* request r, past the pre-check: patient_data gets its uuid4, then insert_one
RegisterPatientInsert(r) ==
    /\ inflight[r].pc = "checked"
    /\ Cardinality(patients) < MaxPatients
    /\ IF patients_insert_accepts(patients, inflight[r].patient_number)
       THEN create_patient_no_precheck(inflight[r].patient_number)
       ELSE /\ resp' = Response(500, "Database error occurred while creating the patient.")
            /\ steps' = <<>>
            /\ patients' = patients
    /\ inflight' = [inflight EXCEPT ![r].pc = "done", ![r].status = resp'.status,
                                     ![r].steps = steps']
    /\ op' = "register_patient.insert"
    /\ req' = [NoReq EXCEPT !.path = "/users/register-patient",
                            !.patient_number = inflight[r].patient_number]
    /\ forwarded' = TRUE
    /\ handler_ran' = TRUE
    /\ pre' = Snapshot
    /\ UNCHANGED <<TESTING, PYJWT_EXP_INCLUSIVE, now, doctors, api_keys, cases, images, issued>>

\* ------------------------------------------------------------ case workflow
allowed_extensions == {".png", ".jpg", ".jpeg", ".gif", ".bmp"}

\* a file check that lets every file name through
AllowedFile_any(filename) == TRUE

\* file.filename.lower().endswith(allowed_extensions)
AllowedFile(filename) == Suffix(LowerFilename(filename)) \in allowed_extensions

\* get_patient_id that ignores the patient number
get_patient_id_any(pats, patient_number) ==
    IF pats = {}
    THEN [ok |-> FALSE, status |-> 500, detail |-> "Error retrieving patient ID.",
          patient_id |-> 0]
    ELSE [ok |-> TRUE, status |-> 200, detail |-> "",
          patient_id |-> (CHOOSE q \in pats : \A r \in pats : q.patient_id <= r.patient_id).patient_id]

\* get_patient_id: the 404 raised inside the try block is caught by
\* "except Exception" and re-raised as 500
get_patient_id(pats, patient_number) ==
    IF {p \in pats : p.patient_number = patient_number} = {}
    THEN [ok |-> FALSE, status |-> 500, detail |-> "Error retrieving patient ID.",
          patient_id |-> 0]
    ELSE [ok |-> TRUE, status |-> 200, detail |-> "",
          patient_id |-> (CHOOSE p \in pats : p.patient_number = patient_number).patient_id]

\* get_patient_id(patient_number), called on the stored patients
GetPatientId ==
    \E patient_number \in PatientNumbers :
        LET p == get_patient_id(patients, patient_number)
        IN  /\ Record("get_patient_id",
                      [NoReq EXCEPT !.patient_number = patient_number],
                      [Response(p.status, p.detail) EXCEPT !.patient_id = p.patient_id],
                      <<>>, FALSE, FALSE)
            /\ UNCHANGED <<TESTING, PYJWT_EXP_INCLUSIVE, inflight, now, db, issued>>

\* upload_case_image: fs.put; every failure is re-raised as 500
PutOutcomes == {"ok", "error"}
upload_case_image(imgs, o_put) ==
    IF o_put = "ok"
    THEN [ok |-> TRUE, status |-> 200, detail |-> "", images |-> imgs \cup {FreshId(imgs)},
          image_id |-> FreshId(imgs)]
    ELSE [ok |-> FALSE, status |-> 500,
          detail |-> "An error occurred while uploading the image", images |-> imgs,
          image_id |-> 0]

\* get_diagnosis: one requests.post with timeout=5.  response.json() is
\* evaluated before the status check, so a reply that is not JSON ends in
\* the generic 500; a JSON reply with a status other than 200 is re-raised
\* with the remote status.
MLOutcomes == {"ok", "timeout", "not_json", "http_503", "http_502_not_json"}

\* response.status_code of a reply (0: no reply arrived within the timeout)
RemoteStatus(o_ml) ==
    CASE o_ml = "http_503"          -> 503
      [] o_ml = "http_502_not_json" -> 502
      [] o_ml = "timeout"           -> 0
      [] OTHER                      -> 200

get_diagnosis(o_ml, diagnosis) ==
    CASE o_ml = "ok"       -> [ok |-> TRUE, status |-> 200, detail |-> "", diagnosis |-> diagnosis]
      [] o_ml = "http_503" -> [ok |-> FALSE, status |-> 503, detail |-> "ML API error",
                               diagnosis |-> ""]
      [] OTHER             -> [ok |-> FALSE, status |-> 500, detail |-> "Unexpected error",
                               diagnosis |-> ""]

\* a notes value that is a Python str (a list of str has the field "list")
NotesStr(text) == [str |-> text]

\* the notes create_case stores in the case record: the str literal "",
\* whatever was submitted
CaseNotes(notes) == NotesStr("")

\* insert_one adds the store-internal "_id" (oid) to the document it stores
Stored(case_data, oid) ==
    [oid |-> oid, case_id |-> case_data.case_id, doctor_id |-> case_data.doctor_id,
     patient_id |-> case_data.patient_id, diagnosis |-> case_data.diagnosis,
     notes |-> case_data.notes, image_id |-> case_data.image_id]

\* case_data.pop("_id", None)
WithoutId(c) ==
    [case_id |-> c.case_id, doctor_id |-> c.doctor_id, patient_id |-> c.patient_id,
     diagnosis |-> c.diagnosis, notes |-> c.notes, image_id |-> c.image_id]

\* create_case(patient_number, file, current_doctor), models/case.py
create_case(patient_number, filename, image, doctor_id) ==
    LET k == get_api_key(api_keys, doctor_id)
        p == get_patient_id(patients, patient_number)
    IN  IF ~AllowedFile(filename)
        THEN /\ resp' = Response(400, "Invalid file type. Only image files are allowed.")
             /\ steps' = <<"validate">>
             /\ UNCHANGED <<cases, images>>
        ELSE IF image = "empty"
        THEN /\ resp' = Response(500, "An error occurred while creating the case")
             /\ steps' = <<"validate", "file.read", "UploadImage">>
             /\ UNCHANGED <<cases, images>>
        ELSE IF ~k.ok
        THEN /\ resp' = Response(k.status, k.detail)
             /\ steps' = <<"validate", "file.read", "UploadImage", "get_api_key">>
             /\ UNCHANGED <<cases, images>>
        ELSE IF ~p.ok
        THEN /\ resp' = Response(p.status, p.detail)
             /\ steps' = <<"validate", "file.read", "UploadImage", "get_api_key",
                           "get_patient_id">>
             /\ UNCHANGED <<cases, images>>
        ELSE \E o_put \in PutOutcomes :
             LET u == upload_case_image(images, o_put)
             IN  IF ~u.ok
                 THEN /\ resp' = Response(u.status, u.detail)
                      /\ steps' = <<"validate", "file.read", "UploadImage", "get_api_key",
                                    "get_patient_id", "fs.put">>
                      /\ UNCHANGED <<cases, images>>
                 ELSE \E o_ml \in MLOutcomes, diagnosis \in Diagnoses :
                      LET d == get_diagnosis(o_ml, diagnosis)
                          case_data == [case_id |-> FreshId({c.case_id : c \in cases}),
                                        doctor_id |-> doctor_id,
                                        patient_id |-> p.patient_id,
                                        diagnosis |-> d.diagnosis,
                                        notes |-> CaseNotes(<<>>),
                                        image_id |-> u.image_id]
                      IN  IF ~d.ok
                          THEN /\ resp' = Response(d.status, d.detail)
                               /\ steps' = <<"validate", "file.read", "UploadImage",
                                             "get_api_key", "get_patient_id", "fs.put",
                                             "requests.post">>
                               /\ images' = u.images
                               /\ UNCHANGED cases
                          ELSE \E o_case \in StoreOutcomes :
                               /\ steps' = <<"validate", "file.read", "UploadImage",
                                             "get_api_key", "get_patient_id", "fs.put",
                                             "requests.post", "cases.insert_one">>
                               /\ images' = u.images
                               /\ cases' = IF Applied(o_case)
                                           THEN cases \cup {Stored(case_data, FreshId({c.oid : c \in cases}))}
                                           ELSE cases
                               /\ resp' =
                                    CASE Acknowledged(o_case) ->
                                           [Response(201, "success") EXCEPT !.case =
                                              WithoutId(Stored(case_data, FreshId({c.oid : c \in cases})))]
                                      [] o_case = "error" ->
                                           Response(500, "An error occurred while creating the case")
                                      [] OTHER ->
                                           Response(500, "Database insert for case not acknowledged")

\* Case(**case): the schema declares notes as Optional[List[str]]; a str
\* is not a valid list
CaseSchemaValid(c) == "list" \in DOMAIN c.notes

\* get_cases_by_doctor: find({"doctor_id": doctor_id}, {"_id": 0}); no
\* case: 200 with an empty list; otherwise every case goes through
\* Case(**case), whose ValidationError ends in the generic 500
get_cases_by_doctor(cs, doctor_id) ==
    LET cases_list == {c \in cs : c.doctor_id = doctor_id}
    IN  IF cases_list = {}
        THEN [Response(200, "success") EXCEPT !.cases = {}]
        ELSE IF \E c \in cases_list : ~CaseSchemaValid(c)
        THEN Response(500, "An error occurred while retrieving the cases")
        ELSE [Response(200, "") EXCEPT !.cases = {WithoutId(c) : c \in cases_list}]

\* GET /cases/get_cases : gate, get_current_doctor, HTTPBearer, get_cases_by_doctor
GetCases ==
    \E header \in ApiHeaders :
        LET g == dispatch(TESTING, "/cases/get_cases", header, now)
            c == get_current_doctor(header, now, doctors)
            ran == g.forward /\ c.ok /\ HTTPBearer(header)
        IN  /\ op' = "get_cases"
            /\ req' = [HttpReq("/cases/get_cases", header)
                         EXCEPT !.doctor_id = IF g.forward /\ c.ok THEN c.doctor_id ELSE 0]
            /\ IF ~g.forward THEN resp' = Response(g.status, g.detail)
               ELSE IF ~c.ok THEN resp' = Response(c.status, c.detail)
               ELSE IF ~HTTPBearer(header)
               THEN \E st \in HTTPBearerRejectStatuses :
                        resp' = Response(st, "Not authenticated")
               ELSE resp' = get_cases_by_doctor(cases, c.doctor_id)
            /\ steps' = <<>>
            /\ forwarded' = g.forward
            /\ handler_ran' = ran
            /\ pre' = Snapshot
            /\ UNCHANGED <<TESTING, PYJWT_EXP_INCLUSIVE, inflight, now, db, issued>>

\* A call of create_case with the three arguments of its signature; the
\* caller is a doctor record as get_current_doctor returns it.
CreateCase ==
    \E patient_number \in PatientNumbers, filename \in Filenames, image \in ImageBytes,
       doctor \in doctors :
        /\ Cardinality(cases) < MaxCases
        /\ Cardinality(images) < MaxImages
        /\ op' = "create_case"
        /\ req' = [NoReq EXCEPT !.patient_number = patient_number, !.filename = filename,
                                !.image = image, !.doctor_id = doctor.doctor_id]
        /\ forwarded' = FALSE
        /\ handler_ran' = FALSE
        /\ pre' = Snapshot
        /\ create_case(patient_number, filename, image, doctor.doctor_id)
        /\ UNCHANGED <<TESTING, PYJWT_EXP_INCLUSIVE, inflight, now, doctors, api_keys, patients, issued>>

\* POST /cases/new_case : gate, get_current_doctor, HTTPBearer, then the route
\* body calls create_case(patient_number, case_notes, file, current_doctor):
\* four positional arguments for a function of three, a TypeError that
\* reaches the gate's "except Exception"
NewCase ==
    \E header \in ApiHeaders, patient_number \in PatientNumbers, notes \in NotesLists,
       filename \in RouteFilenames :
        LET g == dispatch(TESTING, "/cases/new_case", header, now)
            c == get_current_doctor(header, now, doctors)
        IN  /\ op' = "new_case"
            /\ req' = [HttpReq("/cases/new_case", header)
                         EXCEPT !.patient_number = patient_number, !.notes = notes,
                                !.filename = filename, !.image = "data",
                                !.doctor_id = IF g.forward /\ c.ok THEN c.doctor_id ELSE 0]
            /\ IF ~g.forward THEN resp' = Response(g.status, g.detail)
               ELSE IF ~c.ok THEN resp' = Response(c.status, c.detail)
               ELSE IF ~HTTPBearer(header)
               THEN \E st \in HTTPBearerRejectStatuses :
                        resp' = Response(st, "Not authenticated")
               ELSE resp' = dispatch_exception
            /\ steps' = <<>>
            /\ forwarded' = g.forward
            /\ handler_ran' = (g.forward /\ c.ok /\ HTTPBearer(header))
            /\ pre' = Snapshot
            /\ UNCHANGED <<TESTING, PYJWT_EXP_INCLUSIVE, inflight, now, db, issued>>

\* ---- create_case step by step: one action per store access or remote
\* call of a request, so that the steps of concurrent requests interleave
\* a store as registrations leave it: doctor 1 with the access key it got
\* 31 days ago (expired yesterday), doctor 2 whose key insert failed,
\* patient number 41
InitCaseSteps ==
    /\ TESTING \in BOOLEAN
    /\ PYJWT_EXP_INCLUSIVE \in BOOLEAN
    /\ now = 0
    /\ doctors = {[doctor_id |-> 1, email |-> "a@x.org",
                   password |-> hash_password("pw1", "s1")],
                  [doctor_id |-> 2, email |-> "b@x.org",
                   password |-> hash_password("pw1", "s1")]}
    /\ api_keys = {ApiKeyData(1, 1, 0 - 31)}
    /\ patients = {[patient_id |-> 1, patient_number |-> 41]}
    /\ cases = {}
    /\ images = {}
    /\ issued = {}
    /\ op = "init"
    /\ req = NoReq
    /\ resp = Response(0, "")
    /\ steps = <<>>
    /\ forwarded = FALSE
    /\ handler_ran = FALSE
    /\ pre = [cases |-> {}, images |-> {}]
    /\ inflight = [r \in Requests |-> IdleRequest]

\* the file names sent with the requests
CaseFilenames == {"a.jpg", "malware.exe"}

\* the part of a step that records the request's position, answer and log
CaseStep(r, o, next_pc, a, s) ==
    /\ inflight' = [inflight EXCEPT ![r].pc = IF a.status = 0 THEN next_pc ELSE "done",
                                     ![r].status = a.status,
                                     ![r].detail = a.detail,
                                     ![r].steps = s]
    /\ Record(o, [NoReq EXCEPT !.patient_number = inflight[r].patient_number,
                               !.doctor_id = inflight[r].doctor_id],
              a, s, FALSE, FALSE)

\* request r arrives: the extension check, file.read(), UploadImage
CaseStart(r) ==
    \E patient_number \in PatientNumbers, filename \in CaseFilenames, image \in ImageBytes,
       doctor \in doctors :
        LET a == IF ~AllowedFile(filename)
                 THEN Response(400, "Invalid file type. Only image files are allowed.")
                 ELSE IF image = "empty"
                 THEN Response(500, "An error occurred while creating the case")
                 ELSE Response(0, "")
            s == IF ~AllowedFile(filename) THEN <<"validate">>
                 ELSE <<"validate", "file.read", "UploadImage">>
        IN  /\ inflight[r].pc = "idle"
            /\ inflight' = [inflight EXCEPT ![r] =
                   [IdleRequest EXCEPT !.pc = IF a.status = 0 THEN "get_api_key" ELSE "done",
                                       !.patient_number = patient_number,
                                       !.doctor_id = doctor.doctor_id,
                                       !.status = a.status,
                                       !.detail = a.detail,
                                       !.steps = s]]
            /\ Record("create_case.start",
                      [NoReq EXCEPT !.patient_number = patient_number, !.filename = filename,
                                    !.image = image, !.doctor_id = doctor.doctor_id],
                      a, s, FALSE, FALSE)
            /\ UNCHANGED <<TESTING, PYJWT_EXP_INCLUSIVE, now, db, issued>>

\* a get_api_key step that meters the key: it refuses a key past its
\* expired_date and takes one off the usage budget of the key it returns
CaseGetApiKey_metered(r) ==
    LET k == get_api_key(api_keys, inflight[r].doctor_id)
        valid == {x \in api_keys : /\ x.doctor_id = inflight[r].doctor_id
                                   /\ x.expired_date >= now}
        a == IF valid # {} THEN [Response(0, "") EXCEPT !.api_key = k.api_key]
             ELSE Response(500, "Error retrieving API key.")
    IN  /\ inflight[r].pc = "get_api_key"
        /\ inflight' = [inflight EXCEPT
               ![r].pc = IF valid # {} THEN "get_patient_id" ELSE "done",
               ![r].status = a.status,
               ![r].detail = a.detail,
               ![r].api_key = a.api_key,
               ![r].steps = Append(inflight[r].steps, "get_api_key")]
        /\ api_keys' = (api_keys \ valid)
                           \cup {[x EXCEPT !.usage = x.usage - 1] : x \in valid}
        /\ Record("create_case.get_api_key",
                  [NoReq EXCEPT !.patient_number = inflight[r].patient_number,
                                !.doctor_id = inflight[r].doctor_id],
                  a, Append(inflight[r].steps, "get_api_key"), FALSE, FALSE)
        /\ UNCHANGED <<TESTING, PYJWT_EXP_INCLUSIVE, now, doctors, patients, cases, images,
                       issued>>

\* request r: get_api_key(doctor_id), a find_one that looks at neither
\* expired_date nor usage
CaseGetApiKey(r) ==
    LET k == get_api_key(api_keys, inflight[r].doctor_id)
        a == IF k.ok THEN [Response(0, "") EXCEPT !.api_key = k.api_key]
             ELSE Response(k.status, k.detail)
    IN  /\ inflight[r].pc = "get_api_key"
        /\ inflight' = [inflight EXCEPT
               ![r].pc = IF k.ok THEN "get_patient_id" ELSE "done",
               ![r].status = a.status,
               ![r].detail = a.detail,
               ![r].api_key = a.api_key,
               ![r].steps = Append(inflight[r].steps, "get_api_key")]
        /\ Record("create_case.get_api_key",
                  [NoReq EXCEPT !.patient_number = inflight[r].patient_number,
                                !.doctor_id = inflight[r].doctor_id],
                  a, Append(inflight[r].steps, "get_api_key"), FALSE, FALSE)
        /\ UNCHANGED <<TESTING, PYJWT_EXP_INCLUSIVE, now, db, issued>>

\* a step that takes the submitted number for the patient id, without a
\* look-up in the patients collection
CaseGetPatientId_unchecked(r) ==
    /\ inflight[r].pc = "get_patient_id"
    /\ inflight' = [inflight EXCEPT
           ![r].pc = "fs.put",
           ![r].patient_id = inflight[r].patient_number,
           ![r].steps = Append(inflight[r].steps, "get_patient_id")]
    /\ Record("create_case.get_patient_id",
              [NoReq EXCEPT !.patient_number = inflight[r].patient_number,
                            !.doctor_id = inflight[r].doctor_id],
              [Response(0, "") EXCEPT !.patient_id = inflight[r].patient_number],
              Append(inflight[r].steps, "get_patient_id"), FALSE, FALSE)
    /\ UNCHANGED <<TESTING, PYJWT_EXP_INCLUSIVE, now, db, issued>>

\* request r: get_patient_id(patient_number)
CaseGetPatientId(r) ==
    LET p == get_patient_id(patients, inflight[r].patient_number)
        a == IF p.ok THEN [Response(0, "") EXCEPT !.patient_id = p.patient_id]
             ELSE Response(p.status, p.detail)
    IN  /\ inflight[r].pc = "get_patient_id"
        /\ inflight' = [inflight EXCEPT
               ![r].pc = IF p.ok THEN "fs.put" ELSE "done",
               ![r].status = a.status,
               ![r].detail = a.detail,
               ![r].patient_id = p.patient_id,
               ![r].steps = Append(inflight[r].steps, "get_patient_id")]
        /\ Record("create_case.get_patient_id",
                  [NoReq EXCEPT !.patient_number = inflight[r].patient_number,
                                !.doctor_id = inflight[r].doctor_id],
                  a, Append(inflight[r].steps, "get_patient_id"), FALSE, FALSE)
        /\ UNCHANGED <<TESTING, PYJWT_EXP_INCLUSIVE, now, db, issued>>

\* request r: upload_case_image(image_data), the fs.put of the blob
CasePut(r) ==
    \E o_put \in PutOutcomes :
        LET u == upload_case_image(images, o_put)
            a == IF u.ok THEN Response(0, "") ELSE Response(u.status, u.detail)
        IN  /\ inflight[r].pc = "fs.put"
            /\ images' = u.images
            /\ inflight' = [inflight EXCEPT
                   ![r].pc = IF u.ok THEN "requests.post" ELSE "done",
                   ![r].status = a.status,
                   ![r].detail = a.detail,
                   ![r].image_id = u.image_id,
                   ![r].steps = Append(inflight[r].steps, "fs.put")]
            /\ Record("create_case.fs_put",
                      [NoReq EXCEPT !.patient_number = inflight[r].patient_number,
                                    !.doctor_id = inflight[r].doctor_id],
                      a, Append(inflight[r].steps, "fs.put"), FALSE, FALSE)
            /\ UNCHANGED <<TESTING, PYJWT_EXP_INCLUSIVE, now, doctors, api_keys, patients,
                           cases, issued>>

\* a diagnosis step that waits for a lock: it proceeds only when no other
\* request is at its diagnosis call
CasePost_waits(r) ==
    \E o_ml \in MLOutcomes, diagnosis \in Diagnoses :
        LET d == get_diagnosis(o_ml, diagnosis)
            a == IF d.ok THEN Response(0, "") ELSE Response(d.status, d.detail)
        IN  /\ inflight[r].pc = "requests.post"
            /\ \A q \in Requests \ {r} : inflight[q].pc # "requests.post"
            /\ inflight' = [inflight EXCEPT
                   ![r].pc = IF d.ok THEN "cases.insert_one" ELSE "done",
                   ![r].status = a.status,
                   ![r].detail = a.detail,
                   ![r].reply = o_ml,
                   ![r].posts = inflight[r].posts + 1,
                   ![r].diagnosis = d.diagnosis,
                   ![r].steps = Append(inflight[r].steps, "requests.post")]
            /\ Record("create_case.post",
                      [NoReq EXCEPT !.patient_number = inflight[r].patient_number,
                                    !.doctor_id = inflight[r].doctor_id],
                      a, Append(inflight[r].steps, "requests.post"), FALSE, FALSE)
            /\ UNCHANGED <<TESTING, PYJWT_EXP_INCLUSIVE, now, db, issued>>

\* request r: get_diagnosis, the one requests.post(..., timeout=5) and the
\* handling of its reply
CasePost(r) ==
    \E o_ml \in MLOutcomes, diagnosis \in Diagnoses :
        LET d == get_diagnosis(o_ml, diagnosis)
            a == IF d.ok THEN Response(0, "") ELSE Response(d.status, d.detail)
        IN  /\ inflight[r].pc = "requests.post"
            /\ inflight' = [inflight EXCEPT
                   ![r].pc = IF d.ok THEN "cases.insert_one" ELSE "done",
                   ![r].status = a.status,
                   ![r].detail = a.detail,
                   ![r].reply = o_ml,
                   ![r].posts = inflight[r].posts + 1,
                   ![r].diagnosis = d.diagnosis,
                   ![r].steps = Append(inflight[r].steps, "requests.post")]
            /\ Record("create_case.post",
                      [NoReq EXCEPT !.patient_number = inflight[r].patient_number,
                                    !.doctor_id = inflight[r].doctor_id],
                      a, Append(inflight[r].steps, "requests.post"), FALSE, FALSE)
            /\ UNCHANGED <<TESTING, PYJWT_EXP_INCLUSIVE, now, db, issued>>

\* request r: case_data, cases.insert_one and the answer
CaseInsert(r) ==
    \E o_case \in StoreOutcomes :
        LET case_data == [case_id |-> FreshId({c.case_id : c \in cases}),
                          doctor_id |-> inflight[r].doctor_id,
                          patient_id |-> inflight[r].patient_id,
                          diagnosis |-> inflight[r].diagnosis,
                          notes |-> CaseNotes(<<>>),
                          image_id |-> inflight[r].image_id]
            stored == Stored(case_data, FreshId({c.oid : c \in cases}))
            a == CASE Acknowledged(o_case) ->
                        [Response(201, "success") EXCEPT !.case = WithoutId(stored)]
                   [] o_case = "error" ->
                        Response(500, "An error occurred while creating the case")
                   [] OTHER ->
                        Response(500, "Database insert for case not acknowledged")
        IN  /\ inflight[r].pc = "cases.insert_one"
            /\ cases' = IF Applied(o_case) THEN cases \cup {stored} ELSE cases
            /\ CaseStep(r, "create_case.insert", "done",
                        a, Append(inflight[r].steps, "cases.insert_one"))
            /\ UNCHANGED <<TESTING, PYJWT_EXP_INCLUSIVE, now, doctors, api_keys, patients,
                           images, issued>>

\* ------------------------------------------------------------------ look-ups
\* the ids and headers sent to the look-up routes
CaseIds == 1..(MaxCases + 1)
PatientIds == 1..MaxPatients
LookupHeaders == {NoHeader, Bearer(GarbageToken)} \cup {Bearer(tok) : tok \in issued}

\* get_case_by_id: find_one({"case_id": case_id}, {"_id": 0}); None: 404;
\* otherwise Case(**case), whose ValidationError ends in the generic 500
get_case_by_id(cs, case_id) ==
    LET found == {c \in cs : c.case_id = case_id}
    IN  IF found = {}
        THEN Response(404, "Case not found")
        ELSE LET case == CHOOSE c \in found : TRUE
             IN  IF ~CaseSchemaValid(case)
                 THEN Response(500, "An error occurred while retrieving the case")
                 ELSE [Response(200, "") EXCEPT !.case = WithoutId(case)]

\* get_cases_by_patient: find({"patient_id": patient_id}, {"_id": 0}); no
\* case: 200 with an empty list; otherwise every case goes through Case(**case)
get_cases_by_patient(cs, patient_id) ==
    LET cases_list == {c \in cs : c.patient_id = patient_id}
    IN  IF cases_list = {}
        THEN [Response(200, "") EXCEPT !.cases = {}]
        ELSE IF \E c \in cases_list : ~CaseSchemaValid(c)
        THEN Response(500, "An error occurred while retrieving the cases")
        ELSE [Response(200, "") EXCEPT !.cases = {WithoutId(c) : c \in cases_list}]

\* get_patient_by_patient_number: find_one({"patient_number": n}, {"_id": 0})
get_patient_by_patient_number(pats, patient_number) ==
    LET found == {p \in pats : p.patient_number = patient_number}
    IN  IF patient_number <= 0
        THEN Response(400, "Invalid patient number.")
        ELSE IF found = {}
        THEN Response(404, "Patient not found.")
        ELSE [Response(200, "success") EXCEPT
                !.patient_id = (CHOOSE p \in found : TRUE).patient_id]

\* GET /cases/cases/{case_id} : gate, HTTPBearer, get_case_by_id; the route
\* has no get_current_doctor dependency
GetCase ==
    \E header \in LookupHeaders, case_id \in CaseIds :
        LET g == dispatch(TESTING, "/cases/cases/{case_id}", header, now)
            ran == g.forward /\ HTTPBearer(header)
        IN  /\ IF ~g.forward THEN resp' = Response(g.status, g.detail)
               ELSE IF ~HTTPBearer(header)
               THEN \E st \in HTTPBearerRejectStatuses :
                        resp' = Response(st, "Not authenticated")
               ELSE resp' = get_case_by_id(cases, case_id)
            /\ op' = "get_case"
            /\ req' = [HttpReq("/cases/cases/{case_id}", header) EXCEPT !.case_id = case_id]
            /\ steps' = <<>>
            /\ forwarded' = g.forward
            /\ handler_ran' = ran
            /\ pre' = Snapshot
            /\ UNCHANGED <<TESTING, PYJWT_EXP_INCLUSIVE, inflight, now, db, issued>>

\* GET /cases/cases/patient/{patient_id} : gate, get_current_doctor,
\* HTTPBearer, get_cases_by_patient
GetPatientCases ==
    \E header \in LookupHeaders, patient_id \in PatientIds :
        LET g == dispatch(TESTING, "/cases/cases/patient/{patient_id}", header, now)
            c == get_current_doctor(header, now, doctors)
            ran == g.forward /\ c.ok /\ HTTPBearer(header)
        IN  /\ IF ~g.forward THEN resp' = Response(g.status, g.detail)
               ELSE IF ~c.ok THEN resp' = Response(c.status, c.detail)
               ELSE IF ~HTTPBearer(header)
               THEN \E st \in HTTPBearerRejectStatuses :
                        resp' = Response(st, "Not authenticated")
               ELSE resp' = get_cases_by_patient(cases, patient_id)
            /\ op' = "get_patient_cases"
            /\ req' = [HttpReq("/cases/cases/patient/{patient_id}", header)
                         EXCEPT !.patient_id = patient_id,
                                !.doctor_id = IF g.forward /\ c.ok THEN c.doctor_id ELSE 0]
            /\ steps' = <<>>
            /\ forwarded' = g.forward
            /\ handler_ran' = ran
            /\ pre' = Snapshot
            /\ UNCHANGED <<TESTING, PYJWT_EXP_INCLUSIVE, inflight, now, db, issued>>

\* GET /users/patients/{patient_number} : gate, HTTPBearer,
\* get_patient_by_patient_number; the route has no get_current_doctor dependency
GetPatient ==
    \E header \in LookupHeaders, patient_number \in PatientNumbers :
        LET g == dispatch(TESTING, "/users/patients/{patient_number}", header, now)
            ran == g.forward /\ HTTPBearer(header)
        IN  /\ IF ~g.forward THEN resp' = Response(g.status, g.detail)
               ELSE IF ~HTTPBearer(header)
               THEN \E st \in HTTPBearerRejectStatuses :
                        resp' = Response(st, "Not authenticated")
               ELSE resp' = get_patient_by_patient_number(patients, patient_number)
            /\ op' = "get_patient"
            /\ req' = [HttpReq("/users/patients/{patient_number}", header)
                         EXCEPT !.patient_number = patient_number]
            /\ steps' = <<>>
            /\ forwarded' = g.forward
            /\ handler_ran' = ran
            /\ pre' = Snapshot
            /\ UNCHANGED <<TESTING, PYJWT_EXP_INCLUSIVE, inflight, now, db, issued>>

\* the HTTP interface: every request passes the gate
Next ==
    \/ Tick
    \/ HealthCheck
    \/ ProtectedRoute
    \/ Docs
    \/ RegisterDoctor
    \/ Login
    \/ RegisterPatient
    \/ GetDoctors
    \/ NewCase
    \/ GetCases

Spec == Init /\ [][Next]_vars

\* the case workflow: registrations, logins and calls of create_case
NextCase ==
    \/ RegisterDoctor
    \/ Login
    \/ RegisterPatient
    \/ CreateCase
    \/ GetCases

SpecCase == Init /\ [][NextCase]_vars

\* the access-key store: registrations and calls of allocate_api_key
NextKeys ==
    \/ Tick
    \/ RegisterDoctor
    \/ AllocateApiKey

SpecKeys == Init /\ [][NextKeys]_vars

\* registration and login, with every password the schemas accept
NextLogin ==
    \/ Tick
    \/ RegisterDoctorAnyPassword
    \/ Login

SpecLogin == Init /\ [][NextLogin]_vars

\* concurrent registrations: the steps of the requests interleave
NextRace ==
    \/ \E r \in Requests : RegisterDoctorPrecheck(r)
    \/ \E r \in Requests : RegisterDoctorCreate(r)

SpecRace == Init /\ [][NextRace]_vars

\* the look-up routes over a store filled by registrations and create_case
NextLookup ==
    \/ RegisterDoctor
    \/ Login
    \/ RegisterPatient
    \/ CreateCase
    \/ GetCase
    \/ GetPatientCases

SpecLookup == Init /\ [][NextLookup]_vars

\* the routes that name a bearer credential, as time passes
NextProtected ==
    \/ Tick
    \/ RegisterDoctor
    \/ Login
    \/ RegisterPatient
    \/ GetDoctors
    \/ GetCases
    \/ GetCase
    \/ GetPatientCases
    \/ GetPatient

SpecProtected == Init /\ [][NextProtected]_vars

\* concurrent executions of create_case, one store access or remote call
\* per step
NextCaseSteps ==
    \/ \E r \in Requests : CaseStart(r)
    \/ \E r \in Requests : CaseGetApiKey(r)
    \/ \E r \in Requests : CaseGetPatientId(r)
    \/ \E r \in Requests : CasePut(r)
    \/ \E r \in Requests : CasePost(r)
    \/ \E r \in Requests : CaseInsert(r)

SpecCaseSteps == InitCaseSteps /\ [][NextCaseSteps]_vars

\* every blocking call of a request being served returns or raises: the
\* store calls answer, requests.post gives up after its timeout
FairCaseSteps ==
    /\ SpecCaseSteps
    /\ \A r \in Requests :
          /\ WF_vars(CaseGetApiKey(r))
          /\ WF_vars(CaseGetPatientId(r))
          /\ WF_vars(CasePut(r))
          /\ WF_vars(CasePost(r))
          /\ WF_vars(CaseInsert(r))

\* concurrent registrations, one store access per step
NextKeyRace ==
    \/ Tick
    \/ \E r \in Requests : RegisterDoctorPrecheck(r)
    \/ \E r \in Requests : RegisterDoctorInsert(r)
    \/ \E r \in Requests : RegisterDoctorKeyLookup(r)
    \/ \E r \in Requests : RegisterDoctorKeyInsert(r)

SpecKeyRace == Init /\ [][NextKeyRace]_vars

\* concurrent patient registrations by logged-in doctors
NextPatientRace ==
    \/ RegisterDoctor
    \/ Login
    \/ \E r \in Requests : RegisterPatientPrecheck(r)
    \/ \E r \in Requests : RegisterPatientInsert(r)
    \/ GetPatientId

SpecPatientRace == Init /\ [][NextPatientRace]_vars

\* the token service: create_access_token and verify_token as functions
NextToken ==
    \/ Elapse
    \/ IssueToken
    \/ VerifyToken

SpecToken == Init /\ [][NextToken]_vars

\* ================================================================== claims
HttpOps == {"health_check", "protected_route", "docs", "register_doctor", "login",
            "register_patient", "new_case", "get_doctors", "get_cases"}

Range(seq) == {seq[i] : i \in 1..Len(seq)}
IsPrefix(a, b) == Len(a) <= Len(b) /\ \A i \in 1..Len(a) : a[i] = b[i]

\* the request carries "Bearer <token>" with a token the service issued and
\* whose expiry has not been reached
CarriesValidToken ==
    /\ req.header.scheme = "Bearer"
    /\ Len(req.header.words) >= 1
    /\ req.header.words[1] \in issued
    /\ ~Expired(req.header.words[1], now)

\* C1: with the test-mode flag off the gate forwards a request iff its path
\* is public or it carries a valid bearer token; with the flag on every
\* request is forwarded; no handler of a non-public path runs without a
\* valid token while the flag is off.
C1_GateForwardsIff ==
    op \in HttpOps =>
        /\ forwarded <=> (TESTING \/ req.path \in public_routes \/ CarriesValidToken)
        /\ (handler_ran /\ ~TESTING /\ req.path \notin public_routes) => CarriesValidToken

C1_Witness ==
    /\ ~TESTING
    /\ op = "protected_route"
    /\ forwarded
    /\ handler_ran
    /\ CarriesValidToken

\* C2: with the test-mode flag off, a request to a non-public path that the
\* gate does not forward is answered 401, its handler does not run, and the
\* detail names the reason: header missing or not "Bearer ...", token
\* malformed or wrongly signed, token expired.
C2_Rejected401 ==
    (op \in HttpOps /\ ~TESTING /\ req.path \notin public_routes /\ ~forwarded) =>
        /\ resp.status = 401
        /\ ~handler_ran
        /\ IF req.header.scheme # "Bearer" \/ Len(req.header.words) = 0
           THEN resp.detail = "Missing or invalid Authorization header"
           ELSE IF req.header.words[1].kind # "signed"
           THEN resp.detail = "Invalid token"
           ELSE /\ resp.detail = "Token has expired"
                /\ Expired(req.header.words[1], now)

C2_Witness ==
    /\ ~TESTING
    /\ op = "health_check"
    /\ ~forwarded
    /\ req.header.scheme = "Bearer"
    /\ req.header.words[1] \in issued
    /\ resp.status = 401
    /\ resp.detail = "Token has expired"

\* C3: GET / is answered 200 with the "running" message for every request,
\* also without an Authorization header while the test-mode flag is off.
C3_HealthCheckNoAuth ==
    (op = "health_check" /\ req.header = NoHeader) =>
        /\ resp.status = 200
        /\ resp.detail = "Skin Diagnosis API is running"

\* ---- create_case: what the call was given
SupportedUpload == AllowedFile(req.filename) /\ req.image = "data"
PatientKnown == \E p \in patients : p.patient_number = req.patient_number
CallerHasKey == \E k \in api_keys : k.doctor_id = req.doctor_id

\* C4: whenever create_case ends in an error, at whichever step, the set of
\* case records is what it was before the call.
C4_ErrorLeavesCases ==
    (op = "create_case" /\ resp.status # 201) => cases = pre.cases

\* C5 as stated: validate, resolve patient, resolve access key, diagnose,
\* persist; a supported file with an unknown patient number and a caller
\* without access key fails at the patient step, the key step does not run.
C5_PatientBeforeKey ==
    (op = "create_case" /\ SupportedUpload /\ ~PatientKnown /\ ~CallerHasKey) =>
        /\ "get_patient_id" \in Range(steps)
        /\ "get_api_key" \notin Range(steps)
        /\ resp.detail = "Error retrieving patient ID."

StepOrder == <<"validate", "file.read", "UploadImage", "get_api_key", "get_patient_id",
               "fs.put", "requests.post", "cases.insert_one">>

\* the error details a failure of each step produces
StepFailures(step) ==
    CASE step = "validate"         -> {"Invalid file type. Only image files are allowed."}
      [] step = "UploadImage"      -> {"An error occurred while creating the case"}
      [] step = "get_api_key"      -> {"Error retrieving API key.", "Doctor ID is missing."}
      [] step = "get_patient_id"   -> {"Error retrieving patient ID."}
      [] step = "fs.put"           -> {"An error occurred while uploading the image"}
      [] step = "requests.post"    -> {"ML API error", "Unexpected error"}
      [] step = "cases.insert_one" -> {"An error occurred while creating the case",
                                       "Database insert for case not acknowledged"}
      [] OTHER                     -> {}

\* C5 (amended): create_case runs validate upload, read the upload, resolve
\* access key, resolve patient, store blob, call the external service,
\* persist, in this order; the first failing step decides the error and no
\* later step runs; a supported file with an unknown patient number and a
\* caller without access key fails at the access-key step.
C5_KeyBeforePatient ==
    op = "create_case" =>
        /\ steps # <<>>
        /\ IsPrefix(steps, StepOrder)
        /\ resp.status = 201 => steps = StepOrder
        /\ resp.status # 201 => resp.detail \in StepFailures(steps[Len(steps)])
        /\ "fs.put" \notin Range(steps) => images = pre.images
        /\ "cases.insert_one" \notin Range(steps) => cases = pre.cases
        /\ (SupportedUpload /\ ~PatientKnown /\ ~CallerHasKey) =>
              /\ steps[Len(steps)] = "get_api_key"
              /\ resp.detail = "Error retrieving API key."

C5_Witness ==
    /\ op = "create_case"
    /\ SupportedUpload
    /\ ~PatientKnown
    /\ ~CallerHasKey
    /\ steps[Len(steps)] = "get_api_key"
    /\ resp.status = 500

ReqSuffix == Suffix(LowerFilename(req.filename))

\* C6 as stated: a file name whose extension is not png, jpg or jpeg is
\* rejected with 415 before any lookup, blob write or diagnosis call.
C6_Unsupported415 ==
    (op = "create_case" /\ req.image = "data"
       /\ ReqSuffix \notin {".png", ".jpg", ".jpeg"}) =>
        /\ resp.status = 415
        /\ steps = <<"validate">>

\* C6 (amended): a file name whose extension is not png, jpg, jpeg, gif or
\* bmp is rejected with 400 "Invalid file type. Only image files are
\* allowed.", whatever the doctor and the patient number, before any
\* lookup, blob write or diagnosis call.
C6_Unsupported400 ==
    (op = "create_case" /\ ReqSuffix \notin {".png", ".jpg", ".jpeg", ".gif", ".bmp"}) =>
        /\ resp.status = 400
        /\ resp.detail = "Invalid file type. Only image files are allowed."
        /\ steps = <<"validate">>
        /\ cases = pre.cases
        /\ images = pre.images

C6_Witness ==
    /\ op = "create_case"
    /\ req.filename = "malware.exe"
    /\ PatientKnown
    /\ CallerHasKey
    /\ resp.status = 400

\* C7: create_case with a supported image file and a patient_number that
\* matches no patient ends with 404; no blob is written and the external
\* service is not called.  (Stated for a caller that has an access key.)
C7_UnknownPatient404 ==
    (op = "create_case" /\ SupportedUpload /\ CallerHasKey /\ ~PatientKnown) =>
        /\ resp.status = 404
        /\ images = pre.images
        /\ "requests.post" \notin Range(steps)

\* C8: when the caller has no access-key record, create_case ends with 403;
\* no blob is written and the external service is not called.
C8_NoKey403 ==
    (op = "create_case" /\ SupportedUpload /\ ~CallerHasKey) =>
        /\ resp.status = 403
        /\ images = pre.images
        /\ "requests.post" \notin Range(steps)

C10_RouteKeepsNotes ==
    (op = "new_case" /\ handler_ran /\ req.filename = "a.jpg" /\ PatientKnown
       /\ CallerHasKey /\ req.notes = <<"Follow-up required">>) =>
        /\ resp.status = 201
        /\ resp.case.notes = req.notes
        /\ \E c \in cases : WithoutId(c) = resp.case

\* C11: registrations one after another: a register-doctor whose e-mail,
\* lower-cased, is the e-mail of a stored doctor is answered 400 "Email is
\* already registered." and inserts neither a doctor nor an access key; a
\* register-doctor for a new e-mail is answered 201 when the store
\* acknowledges its writes (500 otherwise) and a 201 adds one doctor under
\* the lower-cased e-mail and one access key for it; no two doctor records
\* share an e-mail.
C11_DuplicateEmailRejected ==
    [][op' = "register_doctor" =>
         /\ (\E d \in doctors : d.email = LowerEmail(req'.email)) =>
                /\ resp'.status = 400
                /\ resp'.detail = "Email is already registered."
                /\ doctors' = doctors
                /\ api_keys' = api_keys
         /\ (\A d \in doctors : d.email # LowerEmail(req'.email)) =>
                /\ resp'.status \in {201, 500}
                /\ resp'.status = 201 =>
                      \E d \in doctors' \ doctors :
                          /\ doctors' = doctors \cup {d}
                          /\ d.email = LowerEmail(req'.email)
                          /\ \E k \in api_keys' \ api_keys :
                                 /\ api_keys' = api_keys \cup {k}
                                 /\ k.doctor_id = d.doctor_id
         /\ \A d1, d2 \in doctors' : d1.email = d2.email => d1 = d2
      ]_vars

C11_Witness ==
    /\ op = "register_doctor"
    /\ req.email = "A@x.org"
    /\ resp.status = 400
    /\ \E d \in doctors : d.email = "a@x.org"
    /\ Cardinality(doctors) = 1

\* C12: registrations one after another: a register-patient that reaches
\* create_patient with a patient_number already in use is answered 400 and
\* the patients collection is unchanged; at most one patient record carries
\* any patient_number.
C12_DuplicatePatientRejected ==
    [][(op' = "register_patient" /\ handler_ran') =>
         /\ (\E p \in patients : p.patient_number = req'.patient_number) =>
                /\ resp'.status = 400
                /\ patients' = patients
         /\ \A p1, p2 \in patients' : p1.patient_number = p2.patient_number => p1 = p2
      ]_vars

C12_Witness ==
    /\ op = "register_patient"
    /\ handler_ran
    /\ resp.status = 400
    /\ Cardinality({p \in patients : p.patient_number = req.patient_number}) = 1

\* C13: allocate_api_key is idempotent per doctor: a call for a doctor id
\* that has an access-key record returns the key of that record and leaves
\* the collection (key, creation and expiry time, usage budget) unchanged;
\* a call that returns for a doctor id without record has stored exactly
\* one record with the returned key; so all calls that return for one doctor
\* return the same key and at most one record exists per doctor.
C13_AllocateIdempotent ==
    [][op' = "allocate_api_key" =>
         /\ (\E k \in api_keys : k.doctor_id = req'.doctor_id) =>
                /\ resp'.status = 200
                /\ \E k \in api_keys : /\ k.doctor_id = req'.doctor_id
                                       /\ k.api_key = resp'.api_key
                /\ api_keys' = api_keys
         /\ ((\A k \in api_keys : k.doctor_id # req'.doctor_id) /\ resp'.status = 200) =>
                \E k \in api_keys' \ api_keys :
                    /\ api_keys' = api_keys \cup {k}
                    /\ k.doctor_id = req'.doctor_id
                    /\ k.api_key = resp'.api_key
         /\ \A k1, k2 \in api_keys' : k1.doctor_id = k2.doctor_id => k1 = k2
      ]_vars

\* a second call at a later time than the one that stored the record
C13_Witness ==
    /\ op = "allocate_api_key"
    /\ resp.status = 200
    /\ \E k \in api_keys : /\ k.doctor_id = req.doctor_id
                           /\ k.api_key = resp.api_key
                           /\ k.created_at < now
    /\ Cardinality(api_keys) = 2

\* the stored doctor the login request names, with a password that verifies
LoginMatches ==
    \E d \in doctors : /\ d.email = LowerEmail(req.email)
                        /\ verify_password(req.password, d.password)

\* C14: login is answered 200 with an access token if and only if a doctor
\* record exists for the lower-cased e-mail and the submitted password
\* verifies against its stored hash; the token's claims carry that doctor's
\* id and e-mail.
C14_LoginIff ==
    op = "login" =>
        /\ resp.status = 200 <=> LoginMatches
        /\ resp.status = 200 =>
              /\ resp.token.kind = "signed"
              /\ \E d \in doctors : /\ d.email = LowerEmail(req.email)
                                    /\ resp.token.id = d.doctor_id
                                    /\ resp.token.email = d.email

\* the token verify_token was given
VerifiedToken == req.header.words[1]

\* verify_token was applied to the token issued for the claims map req.data
RoundTrip ==
    /\ op = "verify_token"
    /\ VerifiedToken \in issued
    /\ \E t0 \in 0..now : VerifiedToken = create_access_token(req.data, t0)

CallerCases == {WithoutId(c) : c \in {x \in cases : x.doctor_id = req.doctor_id}}

\* C17: GET /cases/get_cases is answered 200 with exactly the case records
\* whose doctor_id is the id of the doctor the bearer token identifies:
\* every case of the caller, no case of another doctor, and the empty list
\* for a caller without cases.
C17_CasesOfCaller ==
    (op = "get_cases" /\ handler_ran) =>
        /\ resp.status = 200
        /\ resp.cases = CallerCases

\* the details of the HTTP errors the gate raises itself
GateDetails == {"Missing or invalid Authorization header", "Invalid token",
                "Token has expired"}

\* C18: an exception other than an HTTP error that reaches the gate, as the
\* one the handler of POST /cases/new_case raises through call_next, is
\* answered 500 "Internal server error during authentication."; every
\* request is answered (no exception leaves dispatch); an HTTP error the
\* gate raises itself is answered with its own status code and detail.
C18_GateCatchesExceptions ==
    op \in HttpOps =>
        /\ resp.status # 0
        /\ (op = "new_case" /\ handler_ran) => resp = dispatch_exception
        /\ ~forwarded =>
              /\ resp.status = 401
              /\ resp.detail \in GateDetails
              /\ LET g == dispatch(TESTING, req.path, req.header, now)
                 IN  ~g.forward /\ resp.status = g.status /\ resp.detail = g.detail

C18_Witness ==
    /\ op = "new_case"
    /\ forwarded
    /\ handler_ran
    /\ resp.status = 500
    /\ resp.detail = "Internal server error during authentication."

C20_RaceNotSerialised ==
    /\ \A r \in Requests :
          (inflight[r].pc = "done" /\ inflight[r].status # 400) =>
              /\ inflight[r].status \in {201, 500}
              /\ inflight[r].steps # <<>>
              /\ inflight[r].steps[1] = "doctors.insert_one"
              /\ inflight[r].status = 201 =>
                    \E d \in doctors, k \in api_keys :
                        /\ d.email = LowerEmail(inflight[r].email)
                        /\ k.doctor_id = d.doctor_id
                        /\ inflight[r].created = {DoctorResponse(d, k.api_key)}
    /\ \A d1, d2 \in doctors :
          (d1 # d2 /\ d1.email = d2.email) =>
              \E r1, r2 \in Requests :
                  /\ r1 # r2
                  /\ \A r \in {r1, r2} : /\ inflight[r].pc = "done"
                                          /\ inflight[r].status # 400
                                          /\ LowerEmail(inflight[r].email) = d1.email

\* both requests answered 201 and two doctor records with the same e-mail
C20_Witness ==
    \E r1, r2 \in Requests :
        /\ r1 # r2
        /\ \A r \in {r1, r2} : inflight[r].pc = "done" /\ inflight[r].status = 201
        /\ LowerEmail(inflight[r1].email) = LowerEmail(inflight[r2].email)
        /\ inflight[r1].created # inflight[r2].created
        /\ \E d1, d2 \in doctors : /\ d1 # d2
                                    /\ d1.email = d2.email
                                    /\ d1.email = LowerEmail(inflight[r1].email)

\* C21: concurrent register-patient requests are not serialised: a request
\* that has passed the duplicate pre-check sends its insert whatever has
\* been stored since and is answered 201 whenever the store acknowledges, so
\* two records can carry one patient_number (only when two requests for it
\* both passed the pre-check); get_patient_id for a stored number answers
\* with the patient_id of one of the records that carry it.
C21_PatientRace ==
    [][ /\ \A r \in Requests :
              inflight'[r].pc = "done" =>
                  /\ inflight'[r].status \in {201, 500}
                  /\ inflight'[r].steps = <<"patients.insert_one">>
                  /\ inflight'[r].status = 201 =>
                        \E p \in patients' :
                            p.patient_number = inflight'[r].patient_number
        /\ \A p1, p2 \in patients' :
              (p1 # p2 /\ p1.patient_number = p2.patient_number) =>
                  \E r1, r2 \in Requests :
                      /\ r1 # r2
                      /\ \A r \in {r1, r2} :
                            /\ inflight'[r].pc = "done"
                            /\ inflight'[r].patient_number = p1.patient_number
        /\ op' = "get_patient_id" =>
              LET same == {p \in patients : p.patient_number = req'.patient_number}
              IN  IF same = {}
                  THEN resp'.status = 500
                  ELSE /\ resp'.status = 200
                       /\ resp'.patient_id \in {p.patient_id : p \in same}
      ]_vars

\* two requests for one number both answered 201, two records with that
\* number, and get_patient_id for it answering with one of the two ids
C21_Witness ==
    \E r1, r2 \in Requests :
        /\ r1 # r2
        /\ \A r \in {r1, r2} : inflight[r].pc = "done" /\ inflight[r].status = 201
        /\ inflight[r1].patient_number = inflight[r2].patient_number
        /\ Cardinality({p \in patients :
                           p.patient_number = inflight[r1].patient_number}) = 2
        /\ op = "get_patient_id"
        /\ req.patient_number = inflight[r1].patient_number
        /\ resp.status = 200
        /\ resp.patient_id \in {p.patient_id : p \in patients}

\* C22: register-doctor is the only caller of allocate_api_key and calls it
\* with the uuid4 it has just put into doctor_data, so however the requests
\* interleave no two access-key records carry the same doctor id.
C22_OneKeyPerDoctor ==
    \A k1, k2 \in api_keys : k1.doctor_id = k2.doctor_id => k1 = k2

\* two concurrent registrations, both answered 201, each with its own key
C22_Witness ==
    \E r1, r2 \in Requests :
        /\ r1 # r2
        /\ \A r \in {r1, r2} : inflight[r].pc = "done" /\ inflight[r].status = 201
        /\ inflight[r1].steps = <<"doctors.insert_one", "api_keys.find_one",
                                  "api_keys.insert_one">>
        /\ Cardinality(api_keys) = 2
        /\ \E k \in api_keys : k.doctor_id = inflight[r1].doctor_id
        /\ \E k \in api_keys : k.doctor_id = inflight[r2].doctor_id

\* the operations of the routes that declare a bearer credential
ProtectedOps == {"register_patient", "get_doctors", "get_patient", "new_case",
                 "get_case", "get_cases", "get_patient_cases"}

\* C23: with the gate bypassed by the test-mode flag, a request to a
\* protected route whose token is missing, invalid, expired or names no
\* registered doctor is refused with 401 or 403 before the handler runs.
C23_RoutesReverify ==
    (TESTING /\ op \in ProtectedOps /\ ~CarriesValidToken) =>
        (~handler_ran /\ resp.status \in {401, 403})

\* the headers that carry a token create_access_token makes for a
\* registered doctor and that has not expired
RegisteredDoctorHeaders ==
    {h \in {Bearer(create_access_token([id |-> d.doctor_id, email |-> d.email], t)) :
               d \in doctors, t \in 0..now} :
        get_current_doctor(h, now, doctors).ok}

\* the answer of the two case look-up routes to the recorded request when
\* it carries header h
LookupAnswer(h) ==
    IF op = "get_case"
    THEN IF dispatch(TESTING, req.path, h, now).forward /\ HTTPBearer(h)
         THEN get_case_by_id(cases, req.case_id)
         ELSE Response(401, "")
    ELSE IF /\ dispatch(TESTING, req.path, h, now).forward
            /\ get_current_doctor(h, now, doctors).ok
            /\ HTTPBearer(h)
         THEN get_cases_by_patient(cases, req.patient_id)
         ELSE Response(401, "")

\* the part of C24 that is about the caller: every registered doctor's
\* valid token gets the answer the recorded request got
LookupSameForAll ==
    (op \in {"get_case", "get_patient_cases"} /\ handler_ran /\ CarriesValidToken) =>
        \A h \in RegisteredDoctorHeaders : LookupAnswer(h) = resp

\* C24: a case look-up by a registered doctor with a valid token gets the
\* same answer whichever doctor asks; a stored case is returned with 200,
\* also to a doctor that does not own it, and an absent case id gives 404.
C24_LookupIgnoresCaller ==
    /\ LookupSameForAll
    /\ (op = "get_case" /\ handler_ran /\ CarriesValidToken) =>
           IF \E c \in cases : c.case_id = req.case_id
           THEN /\ resp.status = 200
                /\ \E c \in cases : c.case_id = req.case_id /\ resp.case = WithoutId(c)
           ELSE resp.status = 404

\* the positions of step name s in a step log
Positions(log, s) == {i \in 1..Len(log) : log[i] = s}

\* the part of C25 about the number and the place of the remote calls
DiagnosisOnceAfterPut ==
    \A r \in Requests :
        /\ inflight[r].posts <= 1
        /\ Cardinality(Positions(inflight[r].steps, "requests.post")) = inflight[r].posts
        /\ inflight[r].posts = 1 =>
              /\ inflight[r].image_id \in images
              /\ \E i \in Positions(inflight[r].steps, "fs.put") :
                    \A j \in Positions(inflight[r].steps, "requests.post") : i < j

\* C25: an execution of create_case calls the diagnosis service at most
\* once and only after the blob is stored, and a reply with a status other
\* than 200 ends the request with an error that carries that status and
\* the remote body.
C25_DiagnosisOnceStatusCarried ==
    /\ DiagnosisOnceAfterPut
    /\ \A r \in Requests :
          (inflight[r].posts = 1 /\ RemoteStatus(inflight[r].reply) \notin {0, 200}) =>
              /\ inflight[r].pc = "done"
              /\ inflight[r].status = RemoteStatus(inflight[r].reply)
              /\ inflight[r].detail = "ML API error"

\* the operations that are steps of create_case
CaseStepOps == {"create_case.start", "create_case.get_api_key",
                "create_case.get_patient_id", "create_case.fs_put", "create_case.post",
                "create_case.insert"}

\* C26: no step removes or changes a doctor, patient, case or access-key
\* record (every collection only grows); the steps of create_case leave
\* the access keys as they are, and get_api_key returns the caller's key
\* with its usage budget still 1000 also after the key's expired_date.
C26_CollectionsOnlyGrow ==
    [][ /\ doctors \subseteq doctors'
        /\ api_keys \subseteq api_keys'
        /\ patients \subseteq patients'
        /\ cases \subseteq cases'
        /\ op' \in CaseStepOps => api_keys' = api_keys
        /\ op' = "create_case.get_api_key" =>
              \A k \in api_keys :
                  k.doctor_id = req'.doctor_id =>
                      /\ resp'.status = 0
                      /\ resp'.api_key = k.api_key
                      /\ k \in api_keys'
                      /\ k.usage = 1000
      ]_vars

\* a request was given a key past its expired_date and went on to store a case
C26_Witness ==
    \E r \in Requests, k \in api_keys :
        /\ inflight[r].pc = "done"
        /\ inflight[r].status = 201
        /\ k.doctor_id = inflight[r].doctor_id
        /\ k.api_key = inflight[r].api_key
        /\ k.expired_date < now
        /\ k.usage = 1000
        /\ \E c \in cases : c.doctor_id = k.doctor_id

C28_RegisterAllOrNothing ==
    /\ (\A r \in Requests : inflight[r].pc \in {"idle", "done"}) =>
           \A d \in doctors :
               Cardinality({k \in api_keys : k.doctor_id = d.doctor_id}) = 1
    /\ \A r \in Requests :
           (inflight[r].pc = "done" /\ inflight[r].status # 201) =>
               ~\E d \in doctors : d.doctor_id = inflight[r].doctor_id

\* C29: once a create_case request has finished, the blob it wrote (if any)
\* is the image_id of a stored case.
C29_NoOrphanBlob ==
    \A r \in Requests :
        (inflight[r].pc = "done" /\ inflight[r].image_id \in images) =>
            \E c \in cases : c.image_id = inflight[r].image_id

\* C30: every create_case request that has arrived finishes, with 201 or
\* with an error status; a diagnosis call that times out ends its request
\* with 500 and no case; no request calls the diagnosis service twice.
C30_CaseTerminates ==
    /\ \A r \in Requests : (inflight[r].pc # "idle") ~> (inflight[r].pc = "done")
    /\ [](\A r \in Requests :
            /\ inflight[r].pc = "done" => inflight[r].status \in {201, 400, 500, 502, 503}
            /\ inflight[r].reply = "timeout" =>
                  /\ inflight[r].pc = "done"
                  /\ inflight[r].status = 500
                  /\ ~\E c \in cases : c.image_id = inflight[r].image_id
            /\ inflight[r].posts <= 1)

\* a request ended by the timeout of its diagnosis call while the other
\* request is at its own diagnosis call
C30_Witness ==
    \E r1, r2 \in Requests :
        /\ r1 # r2
        /\ inflight[r1].pc = "done"
        /\ inflight[r1].reply = "timeout"
        /\ inflight[r1].status = 500
        /\ inflight[r2].pc = "requests.post"

====
